---------------------------- MODULE Spec2Model ----------------------------
(***************************************************************************)
(* A model of mpd-fzf (src/mpd-fzf.go): the MPD database parser, the       *)
(* duration formatter, the display-line encoder and decoder, the selector  *)
(* session over a pair of pipes, and the queue reconciliation.             *)
(*                                                                         *)
(* Strings are sequences of one-character strings, so that the code's      *)
(* index arithmetic (strings.Index, LastIndex, Split, slicing) is modelled *)
(* position by position.  The keys of the database format ("directory",    *)
(* "song_begin", ...) are single tokens of such a sequence: no key holds a *)
(* ':' and so keyval's arithmetic on them is the same.                     *)
(***************************************************************************)
EXTENDS Integers, Sequences, FiniteSets, TLC

VARIABLES
    \* formatDurationString applied to one Time value
    durIn, durOut,
    \* readTracks: parse over the scanned lines
    scanned, dirs, track, tracks, parsePc,
    \* groupByArtist applied to one track list
    grpIn, grpOut, grpPc,
    \* the line codec: trackFormatter and parseFzfOutput applied to one input
    encTrack, encWidth, encLine, fzfBlock, fzfPaths, codecPc,
    \* main from fzfSongs on: the selector session and the queue tools
    pc, library, written, writeFailed, inPipe, inClosed, outPipe, fzfOutput, songs,
    selPc, selSeen, selSent, selPending, selExit, exitCode,
    queue, current, playlistOut, delIn, delState, insIn, insState, calls

durVars   == <<durIn, durOut>>
parseVars == <<scanned, dirs, track, tracks, parsePc>>
grpVars   == <<grpIn, grpOut, grpPc>>
codecVars == <<encTrack, encWidth, encLine, fzfBlock, fzfPaths, codecPc>>
runVars   == <<pc, library, written, writeFailed, inPipe, inClosed, outPipe, fzfOutput, songs,
               selPc, selSeen, selSent, selPending, selExit, exitCode,
               queue, current, playlistOut, delIn, delState, insIn, insState, calls>>
vars      == <<durVars, parseVars, grpVars, codecVars, runVars>>

\* A position of the program that is not in use.
None == "none"
\* In place of a string that is not there yet: no string holds this token.
NoStr == <<"none">>
\* The result of an operation that panics (a Go runtime panic ends the process).
Panic == <<"panic">>
\* In place of the exit code of a process that has not exited.
Running == 0 - 1

(***************************************************************************)
(* Strings                                                                 *)
(***************************************************************************)
RECURSIVE Concat(_)
\* The concatenation of a sequence of strings.
Concat(ss) == IF ss = <<>> THEN <<>> ELSE Head(ss) \o Concat(Tail(ss))

\* s[from:] with a 0-based from, as Go slices a string; Panic when from > len(s).
SliceFrom(s, from) ==
    IF from > Len(s) THEN Panic ELSE SubSeq(s, from + 1, Len(s))

\* Whether sub occurs in s at the 0-based index i.
OccursAt(s, sub, i) ==
    /\ i >= 0
    /\ i + Len(sub) <= Len(s)
    /\ SubSeq(s, i + 1, i + Len(sub)) = sub

\* strings.Index: the first 0-based index of sub in s, or -1.
Index(s, sub) ==
    LET hits == {i \in 0..Len(s) : OccursAt(s, sub, i)}
    IN  IF hits = {} THEN -1 ELSE CHOOSE i \in hits : \A j \in hits : i <= j

\* strings.LastIndex: the last 0-based index of sub in s, or -1.
LastIndex(s, sub) ==
    LET hits == {i \in 0..Len(s) : OccursAt(s, sub, i)}
    IN  IF hits = {} THEN -1 ELSE CHOOSE i \in hits : \A j \in hits : i >= j

RECURSIVE Split(_, _)
\* strings.Split(s, sep) for a non-empty sep: always at least one field.
Split(s, sep) ==
    LET i == Index(s, sep)
    IN  IF i = -1 THEN <<s>>
        ELSE <<SubSeq(s, 1, i)>> \o Split(SubSeq(s, i + Len(sep) + 1, Len(s)), sep)

\* strings.SplitN(s, sep, 2): at most two fields, the second the remainder.
SplitN2(s, sep) ==
    LET i == Index(s, sep)
    IN  IF i = -1 THEN <<s>>
        ELSE <<SubSeq(s, 1, i), SubSeq(s, i + Len(sep) + 1, Len(s))>>

\* strings.TrimPrefix.
TrimPrefix(s, prefix) ==
    IF OccursAt(s, prefix, 0) THEN SubSeq(s, Len(prefix) + 1, Len(s)) ELSE s

RECURSIVE JoinWith(_, _)
\* strings.Join(elems, sep).
JoinWith(elems, sep) ==
    IF elems = <<>> THEN <<>>
    ELSE IF Len(elems) = 1 THEN elems[1]
    ELSE elems[1] \o sep \o JoinWith(Tail(elems), sep)

Digits == <<"0", "1", "2", "3", "4", "5", "6", "7", "8", "9">>
IsDigit(c) == \E i \in 1..10 : Digits[i] = c
DigitVal(c) == (CHOOSE i \in 1..10 : Digits[i] = c) - 1

RECURSIVE Itoa(_)
\* strconv.Itoa and fmt's %d of a non-negative integer.
Itoa(n) == IF n < 10 THEN <<Digits[n + 1]>> ELSE Itoa(n \div 10) \o <<Digits[(n % 10) + 1]>>

\* Two digits, zero-padded: the layout elements "04" and "05" of Time.Format.
Pad2(n) == <<Digits[(n \div 10) + 1], Digits[(n % 10) + 1]>>

\* All sequences over S of length at most n.
SeqsUpTo(S, n) == UNION {[1..k -> S] : k \in 0..n}

(***************************************************************************)
(* formatDurationString (src/mpd-fzf.go:73-84)                             *)
(***************************************************************************)
\* A time.Duration is an int64 count of nanoseconds.  Its magnitude is kept as
\* hours, seconds within the hour and nanoseconds within the second, with a
\* sign: a count of nanoseconds does not fit the model checker's integers.
Nano == 1000 * 1000 * 1000
Dur(neg, h, s, ns) == [ok |-> TRUE, neg |-> neg, h |-> h, s |-> s, ns |-> ns]
\* ParseDuration's error.
BadDur == [ok |-> FALSE, neg |-> FALSE, h |-> 0, s |-> 0, ns |-> 0]

\* The magnitude of secs seconds and ns (< 2 * Nano) nanoseconds, normalised.
DurOf(h, secs, ns) ==
    LET s2 == secs + (ns \div Nano)
    IN  Dur(FALSE, h + (s2 \div 3600), s2 % 3600, ns % Nano)

DurAdd(a, b) == DurOf(a.h + b.h, a.s + b.s, a.ns + b.ns)

\* 1<<63 nanoseconds: 2562047h47m16.854775808s.  ParseDuration fails beyond it.
DurTooBig(d) ==
    \/ d.h > 2562047
    \/ d.h = 2562047 /\ d.s > 2836
    \/ d.h = 2562047 /\ d.s = 2836 /\ d.ns > 854775808

\* time's unitMap, each unit as (nanoseconds per unit below one second, or 0;
\* seconds per unit, or 0).
UnitNames == {<<"n", "s">>, <<"u", "s">>, <<"m", "s">>, <<"s">>, <<"m">>, <<"h">>}
UnitSubNs(u) ==
    CASE u = <<"n", "s">> -> 1
      [] u = <<"u", "s">> -> 1000
      [] u = <<"m", "s">> -> 1000000
      [] OTHER -> 0
UnitSecs(u) ==
    CASE u = <<"s">> -> 1
      [] u = <<"m">> -> 60
      [] u = <<"h">> -> 3600
      [] OTHER -> 0

RECURSIVE Pow10(_)
Pow10(k) == IF k = 0 THEN 1 ELSE 10 * Pow10(k - 1)

RECURSIVE DigitsValue(_)
\* leadingInt: the value of a run of digits (0 for the empty run).
DigitsValue(ds) ==
    IF ds = <<>> THEN 0 ELSE 10 * DigitsValue(SubSeq(ds, 1, Len(ds) - 1)) + DigitVal(ds[Len(ds)])

\* The length of the longest prefix of s whose characters satisfy the test.
DigitRun(s) ==
    LET stops == {i \in 1..Len(s) : ~IsDigit(s[i])}
    IN  IF stops = {} THEN Len(s) ELSE (CHOOSE i \in stops : \A j \in stops : i <= j) - 1
UnitRun(s) ==
    LET stops == {i \in 1..Len(s) : IsDigit(s[i]) \/ s[i] = "."}
    IN  IF stops = {} THEN Len(s) ELSE (CHOOSE i \in stops : \A j \in stops : i <= j) - 1

\* v units, as a magnitude.
WholeUnits(v, u) ==
    IF UnitSecs(u) > 0
    THEN IF u = <<"h">> THEN DurOf(v, 0, 0)
         ELSE IF u = <<"m">> THEN DurOf(v \div 60, (v % 60) * 60, 0)
         ELSE DurOf(v \div 3600, v % 3600, 0)
    ELSE LET perSec == Nano \div UnitSubNs(u)
         IN  DurOf((v \div perSec) \div 3600, (v \div perSec) % 3600, (v % perSec) * UnitSubNs(u))

\* f / 10^k units, truncated to a nanosecond: uint64(float64(f) * (unit / scale)).
FracUnits(f, k, u) ==
    LET scale == Pow10(k)
    IN  IF UnitSecs(u) > 0
        THEN LET num == f * UnitSecs(u)
             IN  DurOf(0, num \div scale, (num % scale) * (Nano \div scale))
        ELSE DurOf(0, 0, (f * UnitSubNs(u)) \div scale)

RECURSIVE ParseTerms(_, _)

\* The end of one term: v + f / 10^k of the unit that s starts with is added
\* to the magnitude d, and the loop goes on with what follows the unit.
TermUnit(s, v, f, k, d) ==
    LET n == UnitRun(s)
        u == SubSeq(s, 1, n)
    IN  IF n = 0 \/ u \notin UnitNames THEN BadDur
        ELSE LET term == IF f > 0 THEN DurAdd(WholeUnits(v, u), FracUnits(f, k, u))
                         ELSE WholeUnits(v, u)
             IN  IF DurTooBig(term) \/ DurTooBig(DurAdd(d, term)) THEN BadDur
                 ELSE ParseTerms(SubSeq(s, n + 1, Len(s)), DurAdd(d, term))

\* The digits after the '.' of a term, if it has one; pre tells whether digits
\* came before it.
TermFraction(s, pre, v, d) ==
    IF s # <<>> /\ s[1] = "."
    THEN LET k == DigitRun(Tail(s))
         IN  IF ~pre /\ k = 0 THEN BadDur
             ELSE TermUnit(SubSeq(s, k + 2, Len(s)), v, DigitsValue(SubSeq(s, 2, k + 1)), k, d)
    ELSE IF ~pre THEN BadDur
    ELSE TermUnit(s, v, 0, 0, d)

\* The loop of time.ParseDuration over ([0-9]*(\.[0-9]*)?[a-z]+)+ with the
\* magnitude d read so far: the magnitude, or BadDur on an error.
ParseTerms(s, d) ==
    IF s = <<>> THEN d
    ELSE IF ~(s[1] = "." \/ IsDigit(s[1])) THEN BadDur
    ELSE LET n == DigitRun(s)
         IN  TermFraction(SubSeq(s, n + 1, Len(s)), n > 0, DigitsValue(SubSeq(s, 1, n)), d)

\* time.ParseDuration: a signed duration, or BadDur on an error.
ParseDuration(s) ==
    LET signed == s # <<>> /\ s[1] \in {"-", "+"}
        neg    == s # <<>> /\ s[1] = "-"
        body   == IF signed THEN Tail(s) ELSE s
    IN  IF body = <<"0">> THEN Dur(FALSE, 0, 0, 0)
        ELSE IF body = <<>> THEN BadDur
        ELSE LET d == ParseTerms(body, DurOf(0, 0, 0))
             IN  IF ~d.ok THEN BadDur
                 ELSE IF ~neg /\ d.h = 2562047 /\ d.s = 2836 /\ d.ns = 854775808 THEN BadDur
                 ELSE Dur(neg /\ (d.h > 0 \/ d.s > 0 \/ d.ns > 0), d.h, d.s, d.ns)

\* time.Time{}.Add(d).Format("04:05"): the minute and second of the hour of
\* the instant d after 00:00:00, which for a negative d lies before midnight.
MinSec(d) ==
    LET sec == IF d.neg
               THEN (3600 - ((d.s + (IF d.ns > 0 THEN 1 ELSE 0)) % 3600)) % 3600
               ELSE d.s
    IN  Pad2(sec \div 60) \o <<":">> \o Pad2(sec % 60)

\* duration > time.Hour
LongerThanHour(d) == ~d.neg /\ (d.h > 1 \/ (d.h = 1 /\ (d.s > 0 \/ d.ns > 0)))

formatDurationString(str) ==
    LET duration == ParseDuration(str \o <<"s">>)
    IN  IF ~duration.ok THEN <<>>
        ELSE LET format == MinSec(duration)
                 long   == IF LongerThanHour(duration)
                           THEN Itoa(duration.h) \o <<":">> \o format
                           ELSE format
             IN  <<"(">> \o long \o <<")">>


(***************************************************************************)
(* keyval, Track and parse (src/mpd-fzf.go:37-71, 157-184)                 *)
(***************************************************************************)
\* keyval: the line up to its first ':' and the line from two places after it.
keyval(line) ==
    LET i == Index(line, <<":">>)
    IN  IF i = -1 \/ i = Len(line) - 1 THEN <<line, <<>>>>
        ELSE <<SubSeq(line, 1, i), SliceFrom(line, i + 2)>>

\* new(Track)
NewTrack ==
    [Album |-> <<>>, Artist |-> <<>>, Date |-> <<>>, Filename |-> <<>>,
     Genre |-> <<>>, Path |-> <<>>, Time |-> <<>>, Title |-> <<>>]

\* Track.Set
Set(t, key, value) ==
    CASE key = <<"Album">>  -> [t EXCEPT !.Album = value]
      [] key = <<"Artist">> -> [t EXCEPT !.Artist = value]
      [] key = <<"Date">>   -> [t EXCEPT !.Date = value]
      [] key = <<"Genre">>  -> [t EXCEPT !.Genre = value]
      [] key = <<"Time">>   -> [t EXCEPT !.Time = formatDurationString(value)]
      [] key = <<"Title">>  -> [t EXCEPT !.Title = value]
      [] OTHER -> t

RECURSIVE CleanStack(_, _, _)
\* filepath.Clean's pass over the components of a path: empty and "." ones are
\* dropped, ".." removes the component before it (at the root it is dropped,
\* at the start of a relative path it is kept).
CleanStack(comps, kept, rooted) ==
    IF comps = <<>> THEN kept
    ELSE LET c == Head(comps)
             rest == Tail(comps)
         IN  IF c = <<>> \/ c = <<".">> THEN CleanStack(rest, kept, rooted)
             ELSE IF c = <<".", ".">>
             THEN IF kept # <<>> /\ kept[Len(kept)] # <<".", ".">>
                  THEN CleanStack(rest, SubSeq(kept, 1, Len(kept) - 1), rooted)
                  ELSE IF rooted THEN CleanStack(rest, kept, rooted)
                  ELSE CleanStack(rest, Append(kept, c), rooted)
             ELSE CleanStack(rest, Append(kept, c), rooted)

\* filepath.Clean
Clean(path) ==
    IF path = <<>> THEN <<".">>
    ELSE LET rooted == path[1] = "/"
             body   == JoinWith(CleanStack(Split(path, <<"/">>), <<>>, rooted), <<"/">>)
         IN  IF rooted THEN <<"/">> \o body
             ELSE IF body = <<>> THEN <<".">>
             ELSE body

\* filepath.Join: the non-empty elements joined with '/', cleaned; "" if none.
Join(elems) ==
    LET some == SelectSeq(elems, LAMBDA e : e # <<>>)
    IN  IF some = <<>> THEN <<>> ELSE Clean(JoinWith(some, <<"/">>))

\* case "directory": dirs = append(dirs, value)
PushDirFront(ds, value) == <<value>> \o ds
PushDir(ds, value) == Append(ds, value)

\* failOn(len(dirs) <= 0, ...)
DirsUnderflowNever(ds) == Len(ds) < 0
DirsUnderflow(ds) == Len(ds) <= 0

\* The most lines of the database that parse scans.
MaxLines == 5

\* The lines the database is made of.
DbLines ==
    { <<"directory", ":", " ", "a">>,
      <<"directory", ":", " ", "b">>,
      <<"directory", ":", " ", ".", ".">>,
      <<"end">>,
      <<"song_begin", ":", " ", "f">>,
      <<"song_begin">>,
      <<"song_end">>,
      <<"Artist", ":", " ", "x">>,
      <<"mtime", ":", " ", "1">> }

\* parse's state before the first scan.Scan().
ParseInit ==
    /\ scanned = <<>>
    /\ dirs = <<>>
    /\ track = NewTrack
    /\ tracks = <<>>
    /\ parsePc = "scan"

\* One pass of the loop: scan.Scan() returns a line and the switch handles it.
ScanLine(line) ==
    LET kv    == keyval(line)
        key   == kv[1]
        value == kv[2]
    IN
    /\ parsePc = "scan"
    /\ Len(scanned) < MaxLines
    /\ scanned' = Append(scanned, line)
    /\ CASE key = <<"directory">> ->
              /\ dirs' = PushDir(dirs, value)
              /\ UNCHANGED <<track, tracks, parsePc>>
         [] key = <<"end">> ->
              IF DirsUnderflow(dirs)
              THEN /\ parsePc' = "corrupted"
                   /\ UNCHANGED <<dirs, track, tracks>>
              ELSE /\ dirs' = SubSeq(dirs, 1, Len(dirs) - 1)
                   /\ UNCHANGED <<track, tracks, parsePc>>
         [] key \in {<<"Artist">>, <<"Album">>, <<"Date">>, <<"Genre">>, <<"Time">>, <<"Title">>} ->
              /\ track' = Set(track, key, value)
              /\ UNCHANGED <<dirs, tracks, parsePc>>
         [] key = <<"song_begin">> ->
              /\ track' = [track EXCEPT !.Filename = value,
                                        !.Path = Join(Append(dirs, value))]
              /\ UNCHANGED <<dirs, tracks, parsePc>>
         [] key = <<"song_end">> ->
              /\ tracks' = Append(tracks, track)
              /\ track' = NewTrack
              /\ UNCHANGED <<dirs, parsePc>>
         [] OTHER ->
              UNCHANGED <<dirs, track, tracks, parsePc>>
    /\ UNCHANGED <<durVars, grpVars, codecVars, runVars>>

\* scan.Scan() returns false at the end of the input: parse returns tracks.
ScanEOF ==
    /\ parsePc = "scan"
    /\ parsePc' = "returned"
    /\ UNCHANGED <<scanned, dirs, track, tracks, durVars, grpVars, codecVars, runVars>>

\* scan.Scan() returns false on a read error: fail(scan.Err()) exits with 1.
ScanError ==
    /\ parsePc = "scan"
    /\ parsePc' = "ioerror"
    /\ UNCHANGED <<scanned, dirs, track, tracks, durVars, grpVars, codecVars, runVars>>

\* The exit code parse ends the process with, when it does.
ParseExit == IF parsePc \in {"corrupted", "ioerror"} THEN 1 ELSE 0

ParseNext == (\E line \in DbLines : ScanLine(line)) \/ ScanEOF \/ ScanError

(***************************************************************************)
(* groupByArtist (src/mpd-fzf.go:140-155)                                  *)
(***************************************************************************)
\* The key of the map a track is appended under: artists[t.Artist].
BucketKeyAlbum(t) == t.Album
BucketKey(t) == t.Artist

\* artists[a] after the first loop: the tracks of the key, in input order.
BucketReversed(ts, a) ==
    LET b == SelectSeq(ts, LAMBDA t : t.Artist = a)
    IN  [i \in 1..Len(b) |-> b[Len(b) + 1 - i]]
Bucket(ts, a) == SelectSeq(ts, LAMBDA t : BucketKey(t) = a)

\* The orders a range over a map of these keys may take: Go leaves it open.
KeyOrders(keys) ==
    {o \in [1..Cardinality(keys) -> keys] : \A i, j \in 1..Cardinality(keys) : o[i] = o[j] => i = j}

\* shuffled, for one order of the range over the map.
groupByArtist(ts, order) == Concat([i \in 1..Len(order) |-> Bucket(ts, order[i])])

(***************************************************************************)
(* The line codec: withoutExt, truncateAndPad, trackFormatter and          *)
(* parseFzfOutput (src/mpd-fzf.go:23, 86-138, 249-262)                     *)
(***************************************************************************)
delimiter == <<"/", "/", "/", "/">>

\* "W" stands for a rune that takes two columns of the terminal (such as a
\* CJK ideograph); every other character of the model takes one.
RuneWidth(c) == IF c = "W" THEN 2 ELSE 1

RECURSIVE StringWidth(_)
\* runewidth.StringWidth
StringWidth(s) == IF s = <<>> THEN 0 ELSE RuneWidth(Head(s)) + StringWidth(Tail(s))

RECURSIVE FitRunes(_, _, _)
\* The number of leading runes of s, after the first i, that fit in w more
\* columns: the loop of runewidth.Truncate.
FitRunes(s, i, w) ==
    IF i >= Len(s) THEN i
    ELSE IF RuneWidth(s[i + 1]) > w THEN i
    ELSE FitRunes(s, i + 1, w - RuneWidth(s[i + 1]))

\* runewidth.Truncate(s, w, tail)
Truncate(s, w, tail) ==
    IF StringWidth(s) <= w THEN s
    ELSE SubSeq(s, 1, FitRunes(s, 0, w - StringWidth(tail))) \o tail

\* runewidth.FillRight(s, w)
FillRight(s, w) ==
    LET count == w - StringWidth(s)
    IN  IF count > 0 THEN s \o [i \in 1..count |-> " "] ELSE s

\* truncateAndPad; Panic for a negative maxWidth.
truncateAndPad(s, maxWidth, suffix) ==
    IF maxWidth < 0 THEN Panic
    ELSE FillRight(Truncate(s, maxWidth, suffix), maxWidth)

\* filepath.Base
Base(path) ==
    IF path = <<>> THEN <<".">>
    ELSE LET ends     == {i \in 1..Len(path) : path[i] # "/"}
             stop     == IF ends = {} THEN 0 ELSE CHOOSE i \in ends : \A j \in ends : i >= j
             stripped == SubSeq(path, 1, stop)
             i        == LastIndex(stripped, <<"/">>)
         IN  IF stripped = <<>> THEN <<"/">>
             ELSE SubSeq(stripped, i + 2, Len(stripped))

\* filepath.Ext: from the last '.' of the last element of the path, or "".
Ext(path) ==
    LET dot   == LastIndex(path, <<".">>)
        slash == LastIndex(path, <<"/">>)
    IN  IF dot > slash THEN SubSeq(path, dot + 1, Len(path)) ELSE <<>>

\* strings.TrimSuffix
TrimSuffix(s, suffix) ==
    IF OccursAt(s, suffix, Len(s) - Len(suffix))
    THEN SubSeq(s, 1, Len(s) - Len(suffix)) ELSE s

withoutExt(path) == LET basename == Base(path) IN TrimSuffix(basename, Ext(basename))

\* trackFormatter's fallback: a width of at most MinWidth columns is replaced
\* by DefaultWidth, and FzfColumns columns are left to fzf's own display.
MinWidth == 20
DefaultWidth == 80
FzfColumns == 5
contentLen(width) == (IF width <= MinWidth THEN DefaultWidth ELSE width) - FzfColumns

\* The closure trackFormatter returns, for the terminal width it found.
\* Panic when truncateAndPad panics.
format(t, width) ==
    LET str0 == TrimPrefix(t.Artist \o <<" ", "-", " ">> \o t.Title, <<" ", "-", " ">>)
        str1 == IF str0 = <<>> THEN withoutExt(t.Filename) ELSE str0
        str2 == IF t.Album # <<>> THEN str1 \o <<" ", "{">> \o t.Album \o <<"}">> ELSE str1
        str3 == truncateAndPad(str2, contentLen(width) - Len(t.Time), <<".", ".">>)
    IN  IF str3 = Panic THEN Panic
        ELSE str3 \o t.Time \o delimiter \o t.Path

\* songs[i] = s[strings.LastIndex(s, delimiter)+len(delimiter):]
AfterDelimiter(s) == SliceFrom(s, LastIndex(s, delimiter) + Len(delimiter))

\* parseFzfOutput: the paths, or <<Panic>> when a slice is out of range.
parseFzfOutput(output) ==
    LET songs0 == Split(output, <<"\n">>)
        songs1 == IF songs0[Len(songs0)] = <<>>
                  THEN SubSeq(songs0, 1, Len(songs0) - 1) ELSE songs0
        cut    == [i \in 1..Len(songs1) |-> AfterDelimiter(songs1[i])]
    IN  IF Len(songs0) = 0 \/ songs0[1] = <<>> THEN <<>>
        ELSE IF \E i \in 1..Len(cut) : cut[i] = Panic THEN <<Panic>>
        ELSE cut

(***************************************************************************)
(* fzfCheckExit, removeSongs and insertSongs: the pure parts               *)
(* (src/mpd-fzf.go:230-247, 285-338)                                       *)
(***************************************************************************)
\* FZF returns 130 when killed by ctrl+C
InterruptCode == 130

\* What fzfCheckExit does with the exit status fzf.Wait() reports: "return"
\* (err == nil), "exit0" (os.Exit(0)) or "exit1" (fail(err)).
fzfCheckExitLenient(status) ==
    IF status = InterruptCode THEN "exit0" ELSE "return"
fzfCheckExitSwapped(status) ==
    IF status = 0 THEN "return" ELSE IF status = InterruptCode THEN "exit1" ELSE "exit0"
fzfCheckExit(status) ==
    IF status = 0 THEN "return" ELSE IF status = InterruptCode THEN "exit0" ELSE "exit1"

\* `mpc playlist -f "%position% %file%"`: one line per entry of the queue,
\* its 1-based position, a space and its path.
Listing(q) == Concat([i \in 1..Len(q) |-> Itoa(i) \o <<" ">> \o q[i] \o <<"\n">>])

\* posFname := strings.SplitN(s, " ", 2)
PosFnameSplitAll(s) == Split(s, <<" ">>)
PosFname(s) == SplitN2(s, <<" ">>)

\* fnames: the set of the non-empty songs.
FnamesSkipFirst(ss) == {ss[i] : i \in {j \in 2..Len(ss) : ss[j] # <<>>}}
Fnames(ss) == {ss[i] : i \in {j \in 1..Len(ss) : ss[j] # <<>>}}

\* The lines removeSongs writes to `mpc del` for the listing out.
DelLines(out, ss) ==
    LET lines  == Split(out, <<"\n">>)
        fnames == Fnames(ss)
        fields == [i \in 1..Len(lines) |-> PosFname(lines[i])]
        hits   == SelectSeq(fields, LAMBDA pf : Len(pf) # 1 /\ pf[2] \in fnames)
    IN  [i \in 1..Len(hits) |-> hits[i][1]]

\* The lines insertSongs writes to `mpc insert`.
InsLinesReversed(ss) == [i \in 1..Len(ss) |-> ss[Len(ss) + 1 - i]]
InsLines(ss) == ss

\* The queue after `mpc del` removed the entries at the positions it was
\* given, each an original position, and the place of the current track in it:
\* when the current track is removed the entry after it becomes current.
DelEffect(q, positions) ==
    LET gone == {i \in 1..Len(q) : Itoa(i) \in {positions[k] : k \in 1..Len(positions)}}
        kept == SelectSeq([i \in 1..Len(q) |-> i], LAMBDA i : i \notin gone)
    IN  [i \in 1..Len(kept) |-> q[kept[i]]]
DelCurrent(q, cur, positions) ==
    LET gone   == {i \in 1..Len(q) : Itoa(i) \in {positions[k] : k \in 1..Len(positions)}}
        before == Cardinality({i \in 1..Len(q) : i < cur /\ i \notin gone})
        after  == Cardinality({i \in 1..Len(q) : i > cur /\ i \notin gone})
    IN  IF cur = 0 THEN 0
        ELSE IF cur \notin gone THEN before + 1
        ELSE IF after > 0 THEN before + 1
        ELSE 0

\* The queue after `mpc insert` put the paths after the current track, in the
\* order given.
InsEffect(q, cur, paths) == SubSeq(q, 1, cur) \o paths \o SubSeq(q, cur + 1, Len(q))

(***************************************************************************)
(* Idle values: each specification below runs one part of the program and  *)
(* leaves the variables of the other parts at these values.                *)
(***************************************************************************)
DurIdle   == durIn = <<>> /\ durOut = NoStr
ParseIdle == scanned = <<>> /\ dirs = <<>> /\ track = NewTrack /\ tracks = <<>> /\ parsePc = None
GrpIdle   == grpIn = <<>> /\ grpOut = <<>> /\ grpPc = None
CodecIdle ==
    /\ encTrack = NewTrack /\ encWidth = 0 /\ encLine = NoStr
    /\ fzfBlock = NoStr /\ fzfPaths = <<>> /\ codecPc = None
RunIdle   ==
    /\ pc = None /\ library = <<>> /\ written = 0 /\ writeFailed = FALSE /\ inPipe = <<>> /\ inClosed = FALSE
    /\ outPipe = <<>> /\ fzfOutput = <<>> /\ songs = <<>>
    /\ selPc = None /\ selSeen = <<>> /\ selSent = <<>> /\ selPending = NoStr
    /\ selExit = Running /\ exitCode = Running
    /\ queue = <<>> /\ current = 0 /\ playlistOut = NoStr
    /\ delIn = <<>> /\ delState = None /\ insIn = <<>> /\ insState = None /\ calls = <<>>

(***************************************************************************)
(* SpecDuration: formatDurationString applied to the value of a Time line  *)
(***************************************************************************)
\* The longest Time value drawn from TimeAlphabet.
MaxTimeLen == 4
TimeAlphabet == {"0", "1", "7", "-", ".", "m", "h"}
TimeInputs ==
    SeqsUpTo(TimeAlphabet, MaxTimeLen)
      \cup { <<"1", "2", "5">>, <<"3", "7", "2", "5">>, <<"3", "6", "0", "0">>,
             <<"3", "6", "0", "1">>, <<"3", "5", "9", "9">>, <<"2", "1", "5">>,
             <<"a", "b", "c">>, <<"3", "6", "0", "0", "0", "0">> }

DurationInit == durIn \in TimeInputs /\ durOut = NoStr

\* Track.Set("Time", value): t.Time = formatDurationString(value)
FormatDuration ==
    /\ durOut = NoStr
    /\ durOut' = formatDurationString(durIn)
    /\ UNCHANGED <<durIn, parseVars, grpVars, codecVars, runVars>>

InitDuration == DurationInit /\ ParseIdle /\ GrpIdle /\ CodecIdle /\ RunIdle

SpecDuration == InitDuration /\ [][FormatDuration]_vars

\* Whether a Time value is an integer count of seconds ([+-]?[0-9]+), and the
\* integer it denotes.
IsInteger(str) ==
    LET signed == str # <<>> /\ str[1] \in {"-", "+"}
        body   == IF signed THEN Tail(str) ELSE str
    IN  body # <<>> /\ \A i \in 1..Len(body) : IsDigit(body[i])
SecondsOf(str) ==
    IF str[1] = "-" THEN 0 - DigitsValue(Tail(str))
    ELSE IF str[1] = "+" THEN DigitsValue(Tail(str))
    ELSE DigitsValue(str)

\* C10: the duration formatter returns "" for a value that is not a
\* non-negative integer count of seconds, "(MM:SS)" zero-padded for a value of
\* at most one hour and "(H:MM:SS)" with unpadded hours for a longer one.
C10_DurationFormat ==
    durOut # NoStr =>
      LET n == SecondsOf(durIn)
      IN  IF ~IsInteger(durIn) THEN durOut = <<>>
          ELSE IF n < 0 THEN durOut = <<>>
          ELSE IF n <= 3600
          THEN durOut = <<"(">> \o Pad2((n \div 60) % 60) \o <<":">> \o Pad2(n % 60) \o <<")">>
          ELSE durOut = <<"(">> \o Itoa(n \div 3600) \o <<":">> \o Pad2((n % 3600) \div 60)
                          \o <<":">> \o Pad2(n % 60) \o <<")">>

\* The part of C10 that the code keeps: a non-negative integer count of seconds
\* is displayed as "(MM:SS)" up to one hour and as "(H:MM:SS)" beyond it.
C10_NonNegativeFormat ==
    durOut # NoStr =>
      LET n == SecondsOf(durIn)
      IN  IF ~IsInteger(durIn) THEN TRUE
          ELSE IF n < 0 THEN TRUE
          ELSE IF n <= 3600
          THEN durOut = <<"(">> \o Pad2((n \div 60) % 60) \o <<":">> \o Pad2(n % 60) \o <<")">>
          ELSE durOut = <<"(">> \o Itoa(n \div 3600) \o <<":">> \o Pad2((n % 3600) \div 60)
                          \o <<":">> \o Pad2(n % 60) \o <<")">>

\* The value -1 is displayed as "(59:59)".
C10_MinusOneShown ==
    durIn = <<"-", "1">> /\ durOut = <<"(", "5", "9", ":", "5", "9", ")">>

(***************************************************************************)
(* SpecParse: parse over every database of at most MaxLines lines          *)
(***************************************************************************)
InitParse == ParseInit /\ DurIdle /\ GrpIdle /\ CodecIdle /\ RunIdle

SpecParse == InitParse /\ [][ParseNext]_vars

\* What the claims say of the scanned lines, computed from the lines alone.
KeyOf(line) == keyval(line)[1]
ValueOf(line) == keyval(line)[2]

RECURSIVE OpenDirs(_)
\* The directory names open after the lines, outermost first.
OpenDirs(lines) ==
    IF lines = <<>> THEN <<>>
    ELSE LET before == OpenDirs(SubSeq(lines, 1, Len(lines) - 1))
             last   == lines[Len(lines)]
         IN  IF KeyOf(last) = <<"directory">> THEN Append(before, ValueOf(last))
             ELSE IF KeyOf(last) = <<"end">> /\ before # <<>>
             THEN SubSeq(before, 1, Len(before) - 1)
             ELSE before

\* The places of the lines with the key.
Places(lines, key) == {i \in 1..Len(lines) : KeyOf(lines[i]) = key}

\* The place of the k-th `song_end` line.
SongEndPlace(lines, k) ==
    CHOOSE j \in Places(lines, <<"song_end">>) :
        Cardinality({i \in Places(lines, <<"song_end">>) : i <= j}) = k

\* The places of the `song_begin` lines of the record the k-th `song_end` closes.
SongBeginPlaces(lines, k) ==
    LET j    == SongEndPlace(lines, k)
        prev == IF k = 1 THEN 0 ELSE SongEndPlace(lines, k - 1)
    IN  {i \in Places(lines, <<"song_begin">>) : prev < i /\ i < j}

\* The path the claim gives the k-th track: the names open at its `song_begin`
\* and its filename, joined with '/'.
ClaimedPath(lines, k) ==
    LET i == CHOOSE i \in SongBeginPlaces(lines, k) : \A o \in SongBeginPlaces(lines, k) : o <= i
    IN  JoinWith(Append(OpenDirs(SubSeq(lines, 1, i - 1)), ValueOf(lines[i])), <<"/">>)

\* A name that is one segment of a path: not empty, not "." or "..", no '/'.
IsSegment(name) ==
    /\ name # <<>>
    /\ name # <<".">>
    /\ name # <<".", ".">>
    /\ \A i \in 1..Len(name) : name[i] # "/"

PlainNames(lines) ==
    \A i \in 1..Len(lines) :
        KeyOf(lines[i]) \in {<<"directory">>, <<"song_begin">>} => IsSegment(ValueOf(lines[i]))

\* C2 as stated: for every database whose `end` lines all have an open
\* directory, parse returns one track per `song_end` line, in input order, the
\* path of each being the '/'-join of the directory names open at its
\* `song_begin` and its filename.
C2_TracksAndPaths ==
    parsePc = "returned" =>
        /\ Len(tracks) = Cardinality(Places(scanned, <<"song_end">>))
        /\ \A k \in 1..Len(tracks) :
               SongBeginPlaces(scanned, k) # {} => tracks[k].Path = ClaimedPath(scanned, k)

\* C2 amended: the same, for a database whose directory names and filenames are
\* each one non-empty path segment (no '/', not "." or "..").
C2_TracksAndPathsOfPlainNames ==
    (parsePc = "returned" /\ PlainNames(scanned)) =>
        /\ Len(tracks) = Cardinality(Places(scanned, <<"song_end">>))
        /\ \A k \in 1..Len(tracks) :
               SongBeginPlaces(scanned, k) # {} => tracks[k].Path = ClaimedPath(scanned, k)

\* A track in two nested directories was returned with its path.
C2_Witness ==
    /\ parsePc = "returned"
    /\ PlainNames(scanned)
    /\ Len(tracks) >= 1
    /\ tracks[Len(tracks)].Path = <<"a", "/", "b", "/", "f">>

\* The value of the last line with the key at the places from..to, or "".
LastValue(lines, key, from, to) ==
    LET at == {i \in Places(lines, key) : from <= i /\ i <= to}
    IN  IF at = {} THEN <<>> ELSE ValueOf(lines[CHOOSE i \in at : \A o \in at : o <= i])

\* The place of the `song_begin` line of the k-th track: the last one before
\* its `song_end`.
OwnSongBegin(lines, k) ==
    CHOOSE i \in SongBeginPlaces(lines, k) : \A o \in SongBeginPlaces(lines, k) : o <= i

\* C14: every track parse emits carries the Artist set between its own
\* `song_begin` and its `song_end`, and none when no line there sets one: a
\* field line before the `song_begin` does not show in the track.
C14_FieldsOfOwnRecord ==
    \A k \in 1..Len(tracks) :
        SongBeginPlaces(scanned, k) # {} =>
            tracks[k].Artist = LastValue(scanned, <<"Artist">>, OwnSongBegin(scanned, k),
                                         SongEndPlace(scanned, k))

\* The part of C14 the code keeps: a track carries the Artist set since the
\* `song_end` before it.
C14_FieldsSincePreviousEnd ==
    \A k \in 1..Len(tracks) :
        tracks[k].Artist = LastValue(scanned, <<"Artist">>,
                                     IF k = 1 THEN 1 ELSE SongEndPlace(scanned, k - 1),
                                     SongEndPlace(scanned, k))

\* A track was emitted with an Artist that no line of its record sets.
C14_StaleField ==
    \E k \in 1..Len(tracks) :
        /\ SongBeginPlaces(scanned, k) # {}
        /\ tracks[k].Artist # <<>>
        /\ LastValue(scanned, <<"Artist">>, OwnSongBegin(scanned, k), SongEndPlace(scanned, k)) = <<>>

\* The place of the first `end` line read with no directory open, or 0.
FirstUnderflow(lines) ==
    LET under == {i \in Places(lines, <<"end">>) : OpenDirs(SubSeq(lines, 1, i - 1)) = <<>>}
    IN  IF under = {} THEN 0 ELSE CHOOSE i \in under : \A j \in under : i <= j

\* C7: an `end` line read while no directory is open aborts parse with the
\* corrupted-database error and exit code 1; no line is scanned after it and
\* no track list is returned.
C7_UnderflowAborts ==
    FirstUnderflow(scanned) # 0 =>
        /\ parsePc = "corrupted"
        /\ ParseExit = 1
        /\ FirstUnderflow(scanned) = Len(scanned)

\* parse was aborted by an `end` that closed a directory already closed.
C7_Witness ==
    /\ parsePc = "corrupted"
    /\ Len(scanned) >= 3
    /\ KeyOf(scanned[1]) = <<"directory">>
    /\ KeyOf(scanned[2]) = <<"end">>

(***************************************************************************)
(* SpecGroup: groupByArtist applied to every track list of at most         *)
(* MaxGroup tracks                                                         *)
(***************************************************************************)
MaxGroup == 4
GroupArtists == {<<>>, <<"x">>, <<"y">>}
\* Track lists as parse returns them; the path tells the tracks apart.
GroupInputs ==
    UNION { { [i \in 1..n |-> [NewTrack EXCEPT !.Artist = as[i], !.Path = Itoa(i)]]
              : as \in [1..n -> GroupArtists] } : n \in 0..MaxGroup }

GroupInit == grpIn \in GroupInputs /\ grpOut = <<>> /\ grpPc = "call"

\* readTracks: groupByArtist(parse(scan)), the range over the map in any order.
GroupByArtist ==
    /\ grpPc = "call"
    /\ \E order \in KeyOrders({BucketKey(grpIn[i]) : i \in 1..Len(grpIn)}) :
           grpOut' = groupByArtist(grpIn, order)
    /\ grpPc' = "done"
    /\ UNCHANGED <<grpIn, durVars, parseVars, codecVars, runVars>>

InitGroup == GroupInit /\ DurIdle /\ ParseIdle /\ CodecIdle /\ RunIdle

SpecGroup == InitGroup /\ [][GroupByArtist]_vars

\* C8: in the output of groupByArtist no track of another artist lies between
\* two tracks of the same artist.
C8_ArtistsContiguous ==
    grpPc = "done" =>
        \A i, j, k \in 1..Len(grpOut) :
            (i < k /\ k < j /\ grpOut[i].Artist = grpOut[j].Artist)
                => grpOut[k].Artist = grpOut[i].Artist

\* A list whose first and third tracks share an artist the second does not
\* have was grouped.
C8_Witness ==
    /\ grpPc = "done"
    /\ Len(grpIn) >= 3
    /\ grpIn[1].Artist = grpIn[3].Artist
    /\ grpIn[2].Artist # grpIn[1].Artist
    /\ Len(grpOut) = Len(grpIn)

\* The places of a track in a list.
PlacesOf(t, ts) == {j \in 1..Len(ts) : ts[j] = t}

\* C19: the output of groupByArtist is a permutation of its input, each track
\* of the input being in it exactly once and the lengths being equal, and two
\* tracks of one artist are in the order they had in the input, whatever the
\* order of the range over the map.
C19_StablePermutation ==
    grpPc = "done" =>
        /\ Len(grpOut) = Len(grpIn)
        /\ \A i \in 1..Len(grpIn) : Cardinality(PlacesOf(grpIn[i], grpOut)) = 1
        /\ \A i, j \in 1..Len(grpIn) :
               (i < j /\ grpIn[i].Artist = grpIn[j].Artist) =>
                   \A oi \in PlacesOf(grpIn[i], grpOut), oj \in PlacesOf(grpIn[j], grpOut) : oi < oj

\* Three tracks, the first and the last of one artist, were grouped with the
\* bucket of the second track's artist first.
C19_Witness ==
    /\ grpPc = "done"
    /\ Len(grpIn) = 3
    /\ grpIn[1].Artist = grpIn[3].Artist
    /\ grpIn[2].Artist # grpIn[1].Artist
    /\ grpOut = <<grpIn[2], grpIn[1], grpIn[3]>>

(***************************************************************************)
(* SpecCodec: a track encoded by trackFormatter, echoed by the selector    *)
(* and decoded by parseFzfOutput; and parseFzfOutput applied to a block    *)
(* of any lines                                                            *)
(***************************************************************************)
\* The tracks encoded: the path of each is what parse makes of the names.
CodecTracks ==
    { [NewTrack EXCEPT !.Artist = ar, !.Title = ti, !.Album = al, !.Time = tm,
                       !.Filename = fn, !.Path = Join(Append(ds, fn))]
      : ar \in {<<>>, <<"x">>, <<"W", " ", "/">>},
        ti \in {<<>>, <<"t", "!">>, <<"/", "/", "/", "/", "t">>},
        al \in {<<>>, <<"W", "W", "b">>},
        tm \in {<<>>, formatDurationString(<<"2", "1", "5">>),
                formatDurationString(<<"3", "7", "2", "5">>),
                formatDurationString(<<"1", "0", "0", "0", "0", "0", "0", "h", "0">>)},
        fn \in {<<"f", ".", "m">>, <<"!", " ", "W">>},
        ds \in {<<>>, <<<<"a">>>>, <<<<"a", " ", "b">>, <<"c">>>>, <<<<"/", "a">>>>} }

\* The terminal widths trackFormatter finds (0: none found).
CodecWidths == {0, 21, 24}

\* The most lines of a block of selector output.
MaxBlockLines == 3
RawLines ==
    { <<>>, <<" ">>, <<"a", "b">>, <<"a", "b", "c", "d", "e">>,
      <<"v", "/", "/", "/", "/", "p">>, <<"v", "/", "/", "/", "/", "q", " ", "r">> }
RawBlocks ==
    { JoinWith(ls, <<"\n">>) \o nl
      : ls \in SeqsUpTo(RawLines, MaxBlockLines) \ {<<>>}, nl \in {<<>>, <<"\n">>} }
      \cup {<<>>}

CodecInit ==
    /\ encLine = NoStr
    /\ fzfPaths = <<>>
    /\ \/ /\ encTrack \in CodecTracks
          /\ encWidth \in CodecWidths
          /\ fzfBlock = NoStr
          /\ codecPc = "encode"
       \/ /\ encTrack = NewTrack
          /\ encWidth = 0
          /\ fzfBlock \in RawBlocks
          /\ codecPc = "decode"

\* fmt.Fprintln(in, format(t)): the line of one track.
Encode ==
    /\ codecPc = "encode"
    /\ encLine' = format(encTrack, encWidth)
    /\ codecPc' = IF format(encTrack, encWidth) = Panic THEN "panic" ELSE "select"
    /\ UNCHANGED <<encTrack, encWidth, fzfBlock, fzfPaths, durVars, parseVars, grpVars, runVars>>

\* The selector writes the chosen line verbatim, newline-terminated.
SelectorEcho ==
    /\ codecPc = "select"
    /\ fzfBlock' = encLine \o <<"\n">>
    /\ codecPc' = "decode"
    /\ UNCHANGED <<encTrack, encWidth, encLine, fzfPaths, durVars, parseVars, grpVars, runVars>>

\* return parseFzfOutput(fzfOutput)
Decode ==
    /\ codecPc = "decode"
    /\ fzfPaths' = parseFzfOutput(fzfBlock)
    /\ codecPc' = IF parseFzfOutput(fzfBlock) = <<Panic>> THEN "panic" ELSE "decoded"
    /\ UNCHANGED <<encTrack, encWidth, encLine, fzfBlock, durVars, parseVars, grpVars, runVars>>

InitCodec == CodecInit /\ DurIdle /\ ParseIdle /\ GrpIdle /\ RunIdle

CodecNext == Encode \/ SelectorEcho \/ Decode

SpecCodec == InitCodec /\ [][CodecNext]_vars

\* C3: a track's encoded line decodes to exactly the track's path, whatever
\* the path contains or starts with.
C3_RoundTrip ==
    (codecPc \in {"decoded", "panic"} /\ encLine # NoStr) => fzfPaths = <<encTrack.Path>>

\* The part of C3 the code keeps: the round trip of a path that does not start
\* with '/'.
C3_RoundTripOfRelativePath ==
    (codecPc \in {"decoded", "panic"} /\ encLine # NoStr
       /\ ~OccursAt(encTrack.Path, <<"/">>, 0))
        => fzfPaths = <<encTrack.Path>>

\* The visible part of an encoded line: what precedes the delimiter and the
\* path, that is the text followed by the duration display.
VisiblePart(line, t) == SubSeq(line, 1, Len(line) - Len(delimiter) - Len(t.Path))
TextPart(line, t) == SubSeq(VisiblePart(line, t), 1, Len(VisiblePart(line, t)) - Len(t.Time))

\* C11: for every track and every width, the text of the encoded line takes
\* exactly contentCols = available columns - width of the duration display,
\* and the visible part (text plus duration) exactly the available columns.
C11_VisibleWidth ==
    encLine # NoStr =>
      /\ encLine # Panic
      /\ StringWidth(TextPart(encLine, encTrack)) = contentLen(encWidth) - StringWidth(encTrack.Time)
      /\ StringWidth(VisiblePart(encLine, encTrack)) = contentLen(encWidth)

\* The part of C11 the code keeps: the widths are exact when contentCols is at
\* least the width of the ellipsis.
C11_VisibleWidthWithRoom ==
    (encLine # NoStr
       /\ contentLen(encWidth) - StringWidth(encTrack.Time) >= StringWidth(<<".", ".">>))
      => /\ encLine # Panic
         /\ StringWidth(TextPart(encLine, encTrack)) = contentLen(encWidth) - StringWidth(encTrack.Time)
         /\ StringWidth(VisiblePart(encLine, encTrack)) = contentLen(encWidth)

\* A line was encoded with fewer columns left for the text than the ellipsis
\* takes, and the text did not fit.
C11_NarrowText ==
    /\ encLine # NoStr /\ encLine # Panic
    /\ contentLen(encWidth) - StringWidth(encTrack.Time) < StringWidth(<<".", ".">>)
    /\ StringWidth(TextPart(encLine, encTrack)) > contentLen(encWidth) - StringWidth(encTrack.Time)

\* The lines of a block, without the empty one a trailing newline leaves.
BlockLines(block) ==
    LET ls == Split(block, <<"\n">>)
    IN  IF ls[Len(ls)] = <<>> THEN SubSeq(ls, 1, Len(ls) - 1) ELSE ls
HasDelimiter(line) == \E i \in 0..Len(line) : OccursAt(line, delimiter, i)

\* C9: a line of the block that lacks the delimiter is skipped: the run is
\* not aborted, and the result is the paths of the other lines, in order.
C9_MalformedLineSkipped ==
    (codecPc \in {"decoded", "panic"} /\ encLine = NoStr
       /\ \E i \in 1..Len(BlockLines(fzfBlock)) : ~HasDelimiter(BlockLines(fzfBlock)[i]))
        => /\ codecPc = "decoded"
           /\ LET good == SelectSeq(BlockLines(fzfBlock), HasDelimiter)
              IN  fzfPaths = [i \in 1..Len(good) |-> AfterDelimiter(good[i])]

\* A block that is empty or holds nothing but spaces and newlines.
OnlyWhitespace(block) == \A i \in 1..Len(block) : block[i] \in {" ", "\n"}

\* C18: parseFzfOutput returns the empty sequence, and does not fail, for a
\* block that is empty or only whitespace; for any other block it returns one
\* path per line, in order, the empty line a trailing newline leaves dropped.
C18_EmptyOrOnePathPerLine ==
    (codecPc \in {"decoded", "panic"} /\ encLine = NoStr) =>
        IF OnlyWhitespace(fzfBlock)
        THEN codecPc = "decoded" /\ fzfPaths = <<>>
        ELSE codecPc = "decoded" =>
               /\ Len(fzfPaths) = Len(BlockLines(fzfBlock))
               /\ \A i \in 1..Len(fzfPaths) :
                      HasDelimiter(BlockLines(fzfBlock)[i])
                         => fzfPaths[i] = AfterDelimiter(BlockLines(fzfBlock)[i])

\* The part of C18 the code keeps: the result is empty for a block whose first
\* line is empty, and for any other block that is decoded it has one entry per
\* line, in order.
C18_FirstLineRule ==
    (codecPc \in {"decoded", "panic"} /\ encLine = NoStr) =>
        IF fzfBlock = <<>> \/ Head(fzfBlock) = "\n"
        THEN codecPc = "decoded" /\ fzfPaths = <<>>
        ELSE codecPc = "decoded" =>
               /\ Len(fzfPaths) = Len(BlockLines(fzfBlock))
               /\ \A i \in 1..Len(fzfPaths) :
                      fzfPaths[i] = AfterDelimiter(BlockLines(fzfBlock)[i])

\* The decoding of the block " \n" has failed.
C18_WhitespaceFails ==
    /\ fzfBlock = <<" ", "\n">>
    /\ codecPc = "panic"

\* The block of an empty line and a well-formed line was decoded to nothing.
C18_LinesAfterEmptyLost ==
    /\ fzfBlock = <<"\n", "v", "/", "/", "/", "/", "p", "\n">>
    /\ codecPc = "decoded"
    /\ fzfPaths = <<>>

(***************************************************************************)
(* Spec: main from fzfSongs on.  The main goroutine writes the encoded     *)
(* lines to the selector's stdin, closes it, reads the selector's stdout   *)
(* to its end, waits for the selector and reconciles the queue; the        *)
(* selector is a process of its own at the other ends of the two pipes.    *)
(***************************************************************************)
\* The most tracks of the library, the lines each pipe holds before a write
\* to it blocks, the most lines the selector writes, and the longest queue.
MaxTracks == 4
InCap == 1
OutCap == 1
MaxPicks == 2
MaxQueue == 3

\* The width trackFormatter finds: the narrowest it does not replace.
RunWidth == MinWidth + 1

CatalogueTrack(i) ==
    [NewTrack EXCEPT !.Artist = <<"x">>, !.Title = <<"t", Digits[i + 1]>>,
                     !.Filename = <<"f", Digits[i + 1]>>,
                     !.Path = Join(<< <<"d", " ", "e">>, <<"f", Digits[i + 1]>> >>)]

\* The paths of the entries of the queue: of two tracks of the library.
QueuePaths == {CatalogueTrack(1).Path, CatalogueTrack(2).Path}

RunInit ==
    /\ pc = "start"
    /\ library \in {[i \in 1..n |-> CatalogueTrack(i)] : n \in 0..MaxTracks}
    /\ written = 0 /\ writeFailed = FALSE /\ inPipe = <<>> /\ inClosed = FALSE
    /\ outPipe = <<>> /\ fzfOutput = <<>> /\ songs = <<>>
    /\ selPc = None /\ selSeen = <<>> /\ selSent = <<>> /\ selPending = NoStr
    /\ selExit = Running /\ exitCode = Running
    /\ queue = <<>> /\ current = 0 /\ playlistOut = NoStr
    /\ delIn = <<>> /\ delState = None /\ insIn = <<>> /\ insState = None /\ calls = <<>>

sessionVars == <<written, writeFailed, inPipe, inClosed, outPipe, fzfOutput, songs,
                 selPc, selSeen, selSent, selPending, selExit>>
toolVars    == <<queue, current, playlistOut, delIn, delState, insIn, insState>>
otherVars   == <<durVars, parseVars, grpVars, codecVars>>

\* os.Exit(code), and a panic as exit code 2.
Exit(code) == pc' = "exit" /\ exitCode' = code

\* fzfSongs up to fzf.Start(): the pipes are made and the selector runs.
FzfStart ==
    /\ pc = "start"
    /\ pc' = "write"
    /\ selPc' = "run"
    /\ calls' = Append(calls, "fzf-tmux")
    /\ UNCHANGED <<library, written, writeFailed, inPipe, inClosed, outPipe, fzfOutput, songs,
                   selSeen, selSent, selPending, selExit, exitCode, toolVars, otherVars>>

\* fail(fzf.Start()) with an error: the selector could not be started.
FzfStartFails ==
    /\ pc = "start"
    /\ Exit(1)
    /\ UNCHANGED <<library, sessionVars, toolVars, calls, otherVars>>

\* fmt.Fprintln(in, format(t)): blocks while the pipe is full; once the
\* selector has exited the write fails, and the error is not looked at
\* (writeFailed records that Fprintln returned one).
WriteLine ==
    /\ pc = "write"
    /\ written < Len(library)
    /\ \/ /\ selPc = "exited"
          /\ writeFailed' = TRUE
          /\ UNCHANGED inPipe
       \/ /\ selPc # "exited"
          /\ Len(inPipe) < InCap
          /\ inPipe' = Append(inPipe, format(library[written + 1], RunWidth))
          /\ UNCHANGED writeFailed
    /\ written' = written + 1
    /\ UNCHANGED <<pc, library, inClosed, outPipe, fzfOutput, songs, selPc, selSeen, selSent,
                   selPending, selExit, exitCode, toolVars, calls, otherVars>>

\* fail(in.Close()) after the loop.
CloseInputEarly ==
    /\ pc = "write"
    /\ inClosed' = TRUE
    /\ pc' = "read"
    /\ UNCHANGED <<library, written, writeFailed, inPipe, outPipe, fzfOutput, songs, selPc,
                   selSeen, selSent, selPending, selExit, exitCode, toolVars, calls, otherVars>>
CloseInput ==
    /\ pc = "write"
    /\ written = Len(library)
    /\ inClosed' = TRUE
    /\ pc' = "read"
    /\ UNCHANGED <<library, written, writeFailed, inPipe, outPipe, fzfOutput, songs, selPc, selSeen, selSent,
                   selPending, selExit, exitCode, toolVars, calls, otherVars>>

\* ioutil.ReadAll(out): one read takes what the pipe holds.
ReadOutput ==
    /\ pc = "read"
    /\ outPipe # <<>>
    /\ fzfOutput' = fzfOutput \o Concat(outPipe)
    /\ outPipe' = <<>>
    /\ UNCHANGED <<pc, library, written, writeFailed, inPipe, inClosed, songs, selPc, selSeen, selSent,
                   selPending, selExit, exitCode, toolVars, calls, otherVars>>

\* ioutil.ReadAll(out) returns at the end of the selector's output.
ReadEOF ==
    /\ pc = "read"
    /\ outPipe = <<>>
    /\ selPc = "exited"
    /\ pc' = "wait"
    /\ UNCHANGED <<library, sessionVars, exitCode, toolVars, calls, otherVars>>

\* fzfCheckExit(fzf.Wait()) and return parseFzfOutput(fzfOutput).  On the
\* return the selector, its pipes and the locals of fzfSongs are gone.
WaitSelector ==
    /\ pc = "wait"
    /\ selPc = "exited"
    /\ LET verdict == fzfCheckExit(selExit)
           paths   == parseFzfOutput(fzfOutput)
       IN  IF verdict = "exit0"
           THEN Exit(0) /\ UNCHANGED sessionVars
           ELSE IF verdict = "exit1"
           THEN Exit(1) /\ UNCHANGED sessionVars
           ELSE IF paths = <<Panic>>
           THEN Exit(2) /\ UNCHANGED sessionVars
           ELSE /\ pc' = "main"
                /\ songs' = paths
                /\ inPipe' = <<>> /\ outPipe' = <<>> /\ fzfOutput' = <<>>
                /\ selSeen' = <<>>
                /\ UNCHANGED <<written, writeFailed, inClosed, selPc, selSent, selPending, selExit, exitCode>>
    /\ UNCHANGED <<library, toolVars, calls, otherVars>>

\* The selector reads a line of its input.
SelRead ==
    /\ selPc = "run"
    /\ inPipe # <<>>
    /\ selSeen' = Append(selSeen, Head(inPipe))
    /\ inPipe' = Tail(inPipe)
    /\ UNCHANGED <<pc, library, written, writeFailed, inClosed, outPipe, fzfOutput, songs, selPc, selSent,
                   selPending, selExit, exitCode, toolVars, calls, otherVars>>

\* The selector starts to write a line it has read, and not written yet, to
\* its output.
SelBeginWrite ==
    /\ selPc = "run"
    /\ Len(selSent) < MaxPicks
    /\ \E i \in 1..Len(selSeen) :
          /\ \A k \in 1..Len(selSent) : selSent[k] # selSeen[i]
          /\ selPending' = selSeen[i]
    /\ selPc' = "writing"
    /\ UNCHANGED <<pc, library, written, writeFailed, inPipe, inClosed, outPipe, fzfOutput, songs, selSeen,
                   selSent, selExit, exitCode, toolVars, calls, otherVars>>

\* The write ends once the pipe has room for the line.
SelCompleteWrite ==
    /\ selPc = "writing"
    /\ Len(outPipe) < OutCap
    /\ outPipe' = Append(outPipe, selPending \o <<"\n">>)
    /\ selSent' = Append(selSent, selPending)
    /\ selPending' = NoStr
    /\ selPc' = "run"
    /\ UNCHANGED <<pc, library, written, writeFailed, inPipe, inClosed, fzfOutput, songs, selSeen,
                   selExit, exitCode, toolVars, calls, otherVars>>

\* The selector exits: 0 on confirm, InterruptCode on ctrl+C, 1 or 2 otherwise.
\* The ends of the pipes it held are closed, and what its input held is lost.
SelExit ==
    /\ selPc = "run"
    /\ selExit' \in {0, 1, 2, InterruptCode}
    /\ selPc' = "exited"
    /\ inPipe' = <<>>
    /\ UNCHANGED <<pc, library, written, writeFailed, inClosed, outPipe, fzfOutput, songs, selSeen, selSent,
                   selPending, exitCode, toolVars, calls, otherVars>>

\* main: if len(songs) == 0 { return }
MainEmpty ==
    /\ pc = "main"
    /\ Len(songs) = 0
    /\ Exit(0)
    /\ UNCHANGED <<library, sessionVars, toolVars, calls, otherVars>>

\* removeSongs: mpc.Output() of `mpc playlist` lists the queue as it is then.
QueryQueueAlways ==
    /\ pc = "main"
    /\ queue' \in SeqsUpTo(QueuePaths, MaxQueue)
    /\ current' \in 0..Len(queue')
    /\ playlistOut' = Listing(queue')
    /\ calls' = Append(calls, "playlist")
    /\ pc' = "delStart"
    /\ UNCHANGED <<library, sessionVars, exitCode, delIn, delState, insIn, insState, otherVars>>
QueryQueue ==
    /\ pc = "main"
    /\ Len(songs) # 0
    /\ queue' \in SeqsUpTo(QueuePaths, MaxQueue)
    /\ current' \in 0..Len(queue')
    /\ playlistOut' = Listing(queue')
    /\ calls' = Append(calls, "playlist")
    /\ pc' = "delStart"
    /\ UNCHANGED <<library, sessionVars, exitCode, delIn, delState, insIn, insState, otherVars>>

\* removeSongs returns the error of `mpc playlist`, and main fails on it.
QueryFails ==
    /\ pc = "main"
    /\ Len(songs) # 0
    /\ calls' = Append(calls, "playlist")
    /\ Exit(1)
    /\ UNCHANGED <<library, sessionVars, toolVars, otherVars>>

\* mpc.Start() of `mpc del`.
DelStart ==
    /\ pc = "delStart"
    /\ delState' = "running"
    /\ calls' = Append(calls, "del")
    /\ pc' = "delWrite"
    /\ UNCHANGED <<library, sessionVars, exitCode, queue, current, playlistOut, delIn,
                   insIn, insState, otherVars>>

DelStartFails ==
    /\ pc = "delStart"
    /\ delState' = "failed"
    /\ Exit(1)
    /\ UNCHANGED <<library, sessionVars, queue, current, playlistOut, delIn,
                   insIn, insState, calls, otherVars>>

\* The loop over the listing, and in.Close(): the tool takes every line, or it
\* dies after some of them and the writes that fail go unnoticed.
DelWrite ==
    /\ pc = "delWrite"
    /\ LET lines == DelLines(playlistOut, songs)
       IN  \E n \in 0..Len(lines) :
              /\ delIn' = SubSeq(lines, 1, n)
              /\ delState' = IF n = Len(lines) THEN "fed" ELSE "died"
    /\ pc' = "delWait"
    /\ UNCHANGED <<library, sessionVars, exitCode, queue, current, playlistOut,
                   insIn, insState, calls, otherVars>>

\* mpc.Wait() of `mpc del` returns nil: the tool has removed the entries at
\* the positions it took.  The exit status is the tool's own: a tool that
\* stopped reading its input may still exit with status 0.
DelSucceeds ==
    /\ pc = "delWait"
    /\ delState \in {"fed", "died"}
    /\ delState' = "ok"
    /\ queue' = DelEffect(queue, delIn)
    /\ current' = DelCurrent(queue, current, delIn)
    /\ pc' = "insStart"
    /\ UNCHANGED <<library, sessionVars, exitCode, playlistOut, delIn, insIn, insState,
                   calls, otherVars>>

\* mpc.Wait() of `mpc del` returns an error: main fails on it.
DelFails ==
    /\ pc = "delWait"
    /\ delState' = "failed"
    /\ Exit(1)
    /\ UNCHANGED <<library, sessionVars, queue, current, playlistOut, delIn, insIn, insState,
                   calls, otherVars>>

\* insertSongs: mpc.Start() of `mpc insert`.
InsStart ==
    /\ pc = "insStart"
    /\ insState' = "running"
    /\ calls' = Append(calls, "insert")
    /\ pc' = "insWrite"
    /\ UNCHANGED <<library, sessionVars, exitCode, queue, current, playlistOut, delIn, delState,
                   insIn, otherVars>>

InsStartFails ==
    /\ pc = "insStart"
    /\ insState' = "failed"
    /\ Exit(1)
    /\ UNCHANGED <<library, sessionVars, queue, current, playlistOut, delIn, delState,
                   insIn, calls, otherVars>>

\* The loop over songs, and in.Close().
InsWrite ==
    /\ pc = "insWrite"
    /\ LET lines == InsLines(songs)
       IN  \E n \in 0..Len(lines) :
              /\ insIn' = SubSeq(lines, 1, n)
              /\ insState' = IF n = Len(lines) THEN "fed" ELSE "died"
    /\ pc' = "insWait"
    /\ UNCHANGED <<library, sessionVars, exitCode, queue, current, playlistOut, delIn, delState,
                   calls, otherVars>>

\* mpc.Wait() of `mpc insert` returns nil, and main returns: the tool has
\* inserted the paths it took.
InsSucceeds ==
    /\ pc = "insWait"
    /\ insState \in {"fed", "died"}
    /\ insState' = "ok"
    /\ queue' = InsEffect(queue, current, insIn)
    /\ Exit(0)
    /\ UNCHANGED <<library, sessionVars, current, playlistOut, delIn, delState, insIn,
                   calls, otherVars>>

InsFails ==
    /\ pc = "insWait"
    /\ insState' = "failed"
    /\ Exit(1)
    /\ UNCHANGED <<library, sessionVars, queue, current, playlistOut, delIn, delState, insIn,
                   calls, otherVars>>

MainSession == FzfStart \/ FzfStartFails \/ WriteLine \/ CloseInput \/ ReadOutput
                 \/ ReadEOF \/ WaitSelector
Selector == SelRead \/ SelBeginWrite \/ SelCompleteWrite \/ SelExit
Reconcile == MainEmpty \/ QueryQueue \/ QueryFails \/ DelStart \/ DelStartFails \/ DelWrite
               \/ DelSucceeds \/ DelFails \/ InsStart \/ InsStartFails \/ InsWrite
               \/ InsSucceeds \/ InsFails

Next == MainSession \/ Selector \/ Reconcile

Init == RunInit /\ DurIdle /\ ParseIdle /\ GrpIdle /\ CodecIdle

Spec == Init /\ [][Next]_vars

\* The selector session alone, with the fairness of its scheduling: the main
\* goroutine takes a step it can take, a write of the selector that has room
\* ends, and the user ends the selector at some time.
SessionNext == MainSession \/ Selector

FairSpec ==
    /\ Init /\ [][SessionNext]_vars
    /\ WF_vars(MainSession) /\ WF_vars(SelCompleteWrite) /\ WF_vars(SelExit)

\* fzfSongs has returned (Completed) or ended the process (Cancelled, Failed).
SessionOver == pc \in {"main", "exit"}

\* C1: the selector session never deadlocks on its two pipes: while fzfSongs
\* has not ended, the main goroutine or the selector can take a step.
C1_SessionNeverStuck == SessionOver \/ ENABLED SessionNext

\* C1 as a property of the fair behaviours: fzfSongs always ends.
C1_SessionEnds == <>SessionOver

\* The state C1 rules out: the main goroutine waits for room in the selector's
\* input, and the selector waits for room in its output, which nobody reads.
C1_Deadlocked ==
    /\ pc = "write" /\ written < Len(library) /\ Len(inPipe) = InCap
    /\ selPc = "writing" /\ Len(outPipe) = OutCap

\* The queue tools, by the names main starts them with.
QueueTools == {"playlist", "del", "insert"}
Started(tool) == \E i \in 1..Len(calls) : calls[i] = tool
TimesStarted(tool) == Cardinality({i \in 1..Len(calls) : calls[i] = tool})

\* The positions of the entries of q whose path is among the chosen ones, in
\* ascending order, as the lines the removal tool reads.
ChosenPositions(q, chosen) ==
    LET at == SelectSeq([i \in 1..Len(q) |-> i],
                        LAMBDA i : \E k \in 1..Len(chosen) : chosen[k] = q[i])
    IN  [k \in 1..Len(at) |-> Itoa(at[k])]

\* C4: the removal tool receives the position of every entry of the queue
\* whose path was chosen, each occurrence, one per line in the order of the
\* listing, and the position of no other entry.
C4_RemovalPositions ==
    (pc = "delWait" /\ delState = "fed") => delIn = ChosenPositions(queue, songs)

\* The removal tool was given the two positions of a chosen path that the
\* queue holds twice, and not the position of the entry between them.
C4_Witness ==
    /\ pc = "delWait" /\ delState = "fed"
    /\ Len(queue) = 3
    /\ queue[1] = queue[3]
    /\ queue[2] # queue[1]
    /\ delIn = << <<"1">>, <<"3">> >>

\* The path of the track whose encoded line the selector wrote.
PathOfLine(line) ==
    library[CHOOSE k \in 1..Len(library) : format(library[k], RunWidth) = line].Path

\* C5: the insertion tool is started only after the removal tool has exited
\* successfully, it is started at most once and, in a run that ends well with
\* a selection, exactly once, and it receives the chosen paths one per line in
\* the order the selector wrote them: what the tool takes is the paths main
\* writes, all of them unless it stops reading.
C5_InsertAfterRemoval ==
    /\ Started("insert") =>
          /\ delState = "ok"
          /\ \E i, j \in 1..Len(calls) : i < j /\ calls[i] = "del" /\ calls[j] = "insert"
    /\ TimesStarted("insert") <= 1
    /\ (pc = "exit" /\ exitCode = 0 /\ Len(songs) # 0) => TimesStarted("insert") = 1
    /\ insState \in {"fed", "died", "ok"} =>
          /\ Len(songs) # 0
          /\ insIn = [i \in 1..Len(insIn) |-> PathOfLine(selSent[i])]
          /\ insState = "fed" => Len(insIn) = Len(selSent)

\* The insertion tool took two paths that the queue held in the other order.
C5_Witness ==
    /\ pc = "exit" /\ exitCode = 0 /\ insState = "ok" /\ delState = "ok"
    /\ insIn = <<CatalogueTrack(2).Path, CatalogueTrack(1).Path>>
    /\ delIn = << <<"1">>, <<"2">> >>
    /\ playlistOut = Listing(<<CatalogueTrack(1).Path, CatalogueTrack(2).Path>>)

\* C6: when the selector exits with the interrupt code the run ends with exit
\* code 0 and no queue tool is started, whatever the selector wrote.
C6_InterruptIsSuccess ==
    selExit = InterruptCode =>
        /\ pc # "main"
        /\ pc = "exit" => exitCode = 0
        /\ \A tool \in QueueTools : ~Started(tool)

\* The run ended after the selector wrote a line and exited with the
\* interrupt code.
C6_Witness ==
    /\ selExit = InterruptCode
    /\ pc = "exit"
    /\ fzfOutput # <<>>

\* The selector has exited with a nonzero code that is not the interrupt code.
SelectorFailed == selExit \notin {Running, 0, InterruptCode}

\* C12: when the selector exits with a nonzero code other than the interrupt
\* code, fzfSongs never returns a decoded selection, no queue tool is started,
\* the main goroutine can always go on to the end, and the run ends with exit
\* code 1 (the code of fail, not that of a panic in the decoding).
C12_SelectorFailureIsFatal ==
    SelectorFailed =>
        /\ pc \in {"write", "read", "wait", "exit"}
        /\ songs = <<>>
        /\ \A tool \in QueueTools : ~Started(tool)
        /\ pc = "exit" => exitCode = 1
        /\ pc # "exit" => ENABLED MainSession

\* The run ended after the selector wrote a line, which fzfSongs collected,
\* and exited with code 1.
C12_Witness ==
    /\ selExit = 1
    /\ pc = "exit"
    /\ fzfOutput # <<>>

\* What the claims on the errors of the queue tools speak of.
QueryFailed == Started("playlist") /\ playlistOut = NoStr
DelStartFailed == delState = "failed" /\ ~Started("del")
DelExitFailed == delState = "failed" /\ Started("del")
\* The removal tool has stopped reading before it took every position.
DelInputRefused ==
    /\ Started("del") /\ pc \notin {"delWrite"}
    /\ delIn # DelLines(playlistOut, songs)
InsStartFailed == insState = "failed" /\ ~Started("insert")
InsExitFailed == insState = "failed" /\ Started("insert")
InsInputRefused ==
    /\ Started("insert") /\ pc \notin {"insWrite"}
    /\ insIn # InsLines(songs)
\* The run was aborted: the process has exited with the code of fail.
Aborted == pc = "exit" /\ exitCode = 1
\* The queue is the listed one without the entries at the positions the
\* removal tool took: nothing was put back.
RemovalStands ==
    /\ Len(queue) = Len(Split(playlistOut, <<"\n">>)) - 1 - Len(delIn)
    /\ delIn = DelLines(playlistOut, songs)
          => \A i \in 1..Len(queue) : queue[i] \notin Fnames(songs)

\* C13: an error of a queue tool call aborts the run with a nonzero exit and
\* no later tool is started: after a failed query neither the removal nor the
\* insertion tool; after a removal tool that failed to start, to take its
\* input or that exited nonzero, not the insertion tool; and a failed
\* insertion after a removal leaves the removal as it is.
C13_ToolErrorAborts ==
    /\ QueryFailed => Aborted /\ ~Started("del") /\ ~Started("insert")
    /\ (DelStartFailed \/ DelExitFailed) => Aborted /\ ~Started("insert")
    /\ DelInputRefused => ~Started("insert") /\ (pc = "exit" => exitCode = 1)
    /\ (InsStartFailed \/ InsExitFailed) => Aborted /\ delState = "ok" /\ RemovalStands
    /\ InsInputRefused => (pc = "exit" => exitCode = 1)

\* The part of C13 the code keeps: the errors of the query, of a start and of a
\* nonzero exit abort the run, and no later tool is started.
C13_ReportedErrorAborts ==
    /\ QueryFailed => Aborted /\ ~Started("del") /\ ~Started("insert")
    /\ (DelStartFailed \/ DelExitFailed) => Aborted /\ ~Started("insert")
    /\ (InsStartFailed \/ InsExitFailed) => Aborted /\ delState = "ok" /\ RemovalStands

\* The insertion tool was started although the removal tool had stopped
\* reading before it took every position.
C13_InsertAfterRefusedInput ==
    /\ DelInputRefused
    /\ Started("insert")

\* C15: once a write of an encoded line to the selector's input has failed,
\* fzfSongs returns no decoded selection, no queue tool is started and the
\* run ends with a nonzero exit code.
C15_WriteErrorIsFatal ==
    writeFailed =>
        /\ pc \in {"write", "read", "wait", "exit"}
        /\ songs = <<>>
        /\ \A tool \in QueueTools : ~Started(tool)
        /\ pc = "exit" => exitCode \notin {Running, 0}

\* A write to the selector's input failed, and the run went on to insert the
\* selection and ended with exit code 0.
C15_IgnoredWriteError ==
    /\ writeFailed
    /\ pc = "exit" /\ exitCode = 0
    /\ Started("insert") /\ insState = "ok"

\* The queue `mpc playlist` listed: the file of each line of the listing.
ListedQueue(out) ==
    LET ls == SelectSeq(Split(out, <<"\n">>), LAMBDA l : l # <<>>)
    IN  [i \in 1..Len(ls) |-> SplitN2(ls[i], <<" ">>)[2]]

\* The entries of q that are not among the chosen paths, in their order.
NotChosen(q, chosen) ==
    SelectSeq(q, LAMBDA p : \A k \in 1..Len(chosen) : chosen[k] # p)

\* The query, the removal and the insertion have all succeeded, each tool
\* having taken all of its input.
Reconciled ==
    /\ pc = "exit" /\ exitCode = 0
    /\ delState = "ok" /\ delIn = DelLines(playlistOut, songs)
    /\ insState = "ok" /\ insIn = InsLines(songs)

\* C16: after a reconciliation whose three calls succeeded, every chosen path
\* is in the queue exactly once, the chosen paths are at the positions right
\* after the current track (at the front when there is none) in the order of
\* the selection, and the other entries are in the order they were listed in.
C16_QueueAfterReconciliation ==
    Reconciled =>
        /\ \A k \in 1..Len(songs) :
               Cardinality({i \in 1..Len(queue) : queue[i] = songs[k]}) = 1
        /\ current + Len(songs) <= Len(queue)
        /\ SubSeq(queue, current + 1, current + Len(songs)) = songs
        /\ NotChosen(queue, songs) = NotChosen(ListedQueue(playlistOut), songs)

\* The queue held a chosen path twice, once as the current track, around an
\* entry that was not chosen; two paths were chosen, one not in the queue.
C16_Witness ==
    /\ Reconciled
    /\ playlistOut = Listing(<<CatalogueTrack(1).Path, CatalogueTrack(2).Path, CatalogueTrack(1).Path>>)
    /\ songs = <<CatalogueTrack(3).Path, CatalogueTrack(1).Path>>
    /\ current = 1
    /\ queue = <<CatalogueTrack(2).Path, CatalogueTrack(3).Path, CatalogueTrack(1).Path>>

\* The state of the selector session: 0 NotStarted, 1 Streaming,
\* 2 AwaitingResult, 3 one of Completed, Cancelled and Failed.
Phase ==
    CASE pc = "start" -> 0
      [] pc = "write" -> 1
      [] pc \in {"read", "wait"} -> 2
      [] OTHER -> 3
\* How a session that is over has ended.
Completed == Phase = 3 /\ (pc # "exit" \/ Started("playlist") \/ (exitCode = 0 /\ selExit = 0))
Cancelled == Phase = 3 /\ pc = "exit" /\ exitCode = 0 /\ selExit = InterruptCode
Failed    == Phase = 3 /\ pc = "exit" /\ exitCode \notin {Running, 0} /\ ~Started("playlist")

\* C17: the session goes through its states in order and ends in one of
\* Completed, Cancelled and Failed: a step never goes back, it skips a state
\* only to fail, a line is written only once the selector has been started,
\* the input is closed only once every line has been written, the output is
\* read and the exit awaited only once the input is closed, and the output is
\* decoded only once the selector has exited with code 0.
C17_SessionOrder ==
    [][ /\ Phase' >= Phase
        /\ Phase' > Phase + 1 => Failed'
        /\ Phase' = 3 =>
              /\ Completed' \/ Cancelled' \/ Failed'
              /\ ~(Completed' /\ Cancelled') /\ ~(Completed' /\ Failed') /\ ~(Cancelled' /\ Failed')
        /\ written' # written => Started("fzf-tmux") /\ selPc # None
        /\ (inClosed' /\ ~inClosed) => written = Len(library)
        /\ (Phase' = 2 /\ fzfOutput' # fzfOutput) => inClosed
        /\ pc' = "wait" => inClosed
        /\ (songs' # songs \/ (pc' = "main" /\ pc # "main") \/ exitCode' = 2) =>
              /\ Phase = 2 /\ selPc = "exited" /\ selExit = 0
      ]_vars

\* The session has gone through every state: the lines were written, the
\* input closed, the output read, and the selection of two paths decoded after
\* the selector's exit with code 0.
C17_Witness ==
    /\ pc = "main"
    /\ written = Len(library) /\ written >= 2 /\ inClosed
    /\ selExit = 0
    /\ Len(songs) = 2

\* fzfSongs has returned the empty selection after the selector's exit with
\* code 0.
EmptySelection ==
    /\ pc \notin {"start", "write", "read", "wait"}
    /\ selExit = 0 /\ exitCode # 2
    /\ songs = <<>>

\* C20: after the selector's exit with code 0 and an empty decoded selection
\* no queue tool is started and the run ends, with exit code 0; a queue tool
\* is started only in a run whose decoded selection is not empty.
C20_EmptySelectionEndsRun ==
    /\ EmptySelection =>
          /\ \A tool \in QueueTools : ~Started(tool)
          /\ pc \in {"main", "exit"}
          /\ pc = "main" => ENABLED MainEmpty
          /\ pc = "exit" => exitCode = 0
    /\ \A tool \in QueueTools : Started(tool) => (selExit = 0 /\ Len(songs) # 0)

\* The selector read the lines, wrote none and exited with code 0, and the run
\* has ended with only the selector started.
C20_Witness ==
    /\ EmptySelection
    /\ pc = "exit" /\ exitCode = 0
    /\ Len(library) >= 1 /\ written = Len(library) /\ ~writeFailed
    /\ calls = <<"fzf-tmux">>

=============================================================================
